---- MODULE Spec2Model ----
\* The puzzle-marathon cog of riddler (src/src/riddler/marathon.py) as a state
\* machine: the three persisted collections under data/marathon/, the command
\* handlers up to and after their suspension point, and the handlers that are
\* suspended in between.
\*
\* Modelling assumptions, stated once:
\*  - the records Team, Puzzle, Attempt and AttemptTimer stand for the entity
\*    objects, instances of dict subclasses. store dumps with NoAliasDumper, a
\*    SafeDumper, which has representers for plain dict, list, str, int and
\*    None and none for these classes: dumping a collection that holds an
\*    entity raises RepresenterError after open(path, 'w') has emptied the
\*    file, and an empty file loads as None.
\*  - load reads with yaml.Loader, which builds entity objects from documents
\*    tagged for object construction only. No handler writes such a document;
\*    a directory holding them has been put there by the operator.
\*  - every reading of datetime.now() is later than the one before it;
\*    timestamps are whole seconds.
\*  - a handler yields to the event loop where it awaits: initialize at each
\*    of its two attachment reads and at its reply, unlock and submit at their
\*    reply, every handler at a denial or error reply, after which it only
\*    returns. The awaited calls themselves succeed.
EXTENDS Integers, Sequences, FiniteSets, TLC

\* ------------------------------------------------------------------ bounds
MaxCmds == 2
MaxPending == 2

\* ---------------------------------------------------------------- universe
Users == {"u1", "u2", "u3"}
Owners == {"u3"}
Channels == {"c1", "c2"}
Guilds == {"g1"}
Roles == {"r1"}
Links == {"L1", "L2"}
PuzzleIds == {"p1", "p2"}
TeamNames == {"alpha", "beta"}

\* The order in which `for team in teams.values()` visits a loaded roster.
TeamOrder == <<"alpha", "beta">>

\* The roles a member holds in the guild the command is invoked in.
UserRoles(member) == IF member = "u2" THEN {"r1"} ELSE {}

None == "None"
NoTime == -1
NoDuration == <<>>
EmptyDict == <<>>

\* What load returns for a file that is empty or holds `null`: None in place
\* of a collection. Also the default of store's puzzles and teams arguments.
null == [n \in {"null"} |-> "null"]

\* `if puzzles:` / `if teams:` is false for None and for an empty dict alike.
Truthy(d) == d # null /\ DOMAIN d # {}

FileNames == {"attempts", "puzzles", "teams"}

\* --------------------------------------------------------------- entities
Range(f) == {f[x] : x \in DOMAIN f}

Contains(seq, x) == \E i \in 1..Len(seq) : seq[i] = x

\* list.remove(x): drops the first occurrence.
RemoveFirst(seq, x) ==
    LET i == CHOOSE k \in 1..Len(seq) : seq[k] = x /\ \A j \in 1..(k-1) : seq[j] # x
    IN  SubSeq(seq, 1, i-1) \o SubSeq(seq, i+1, Len(seq))

Team(name, members, channels, role) ==
    [name |-> name, members |-> members, channels |-> channels, role |-> role]

includes(team, snowflake) == Contains(team.members, snowflake)

Puzzle(id, points) ==
    [id |-> id, name |-> id, category |-> "cat", points |-> points, url |-> id]

AttemptTimer == [start |-> NoTime, end |-> NoTime, duration |-> NoDuration]

\* The instant of clock reading i, in seconds.
Seconds(i) == i * 1830

\* str(timedelta) for a whole number of seconds below one day: H:MM:SS.
StrTimedelta(secs) == <<secs \div 3600, (secs % 3600) \div 60, secs % 60>>

TimerUnlock(timer, now) == [timer EXCEPT !.start = now]

\* `self.end - self.start` with no start recorded: datetime - None raises.
TimerSubmitRaises(timer) == timer.start = NoTime

TimerSubmit(timer, now) ==
    [timer EXCEPT !.end = now, !.duration = StrTimedelta(now - timer.start)]

Attempt(puzzle, team) ==
    [puzzle |-> puzzle, team |-> team, state |-> "not started",
     timer |-> AttemptTimer, link |-> None]

\* Variant: the state is set and the timer left alone.
AttemptUnlock_stateonly(a, now) == [a EXCEPT !.state = "in progress"]

AttemptUnlock(a, now) ==
    [a EXCEPT !.state = "in progress", !.timer = TimerUnlock(a.timer, now)]

AttemptSubmit(a, link, now) ==
    [a EXCEPT !.state = "submitted", !.timer = TimerSubmit(a.timer, now), !.link = link]

\* ----------------------------------------------------------------- uploads
\* The entity dicts initialize builds from what the attachments parse to.
PuzzleUploads ==
    { EmptyDict,
      [p \in {"p1"} |-> Puzzle(p, 10)],
      [p \in {"p1", "p2"} |-> Puzzle(p, 20)] }

\* A role mapping of a team that has a role in a server other than the one
\* the commands are run in.
OtherServerRole == [g \in {"g0"} |-> "r0"]

TeamUploads ==
    { EmptyDict,
      [t \in {"alpha"} |-> Team(t, <<"u1">>, <<"c1">>, EmptyDict)],
      [t \in {"alpha", "beta"} |->
          IF t = "alpha" THEN Team(t, <<"u1">>, <<"c1">>, EmptyDict)
                         ELSE Team(t, <<"u2">>, <<"c2">>, OtherServerRole)] }

\* An attachment whose bytes yaml_load cannot parse.
Malformed == [e \in {"error"} |-> "YAMLError"]

\* An attachment that parses to something that is no mapping of records: an
\* empty file (None), a list, a scalar, a record lacking a field.
NotRecords == [e \in {"error"} |-> "AttributeError"]

\* What the two attachments of an initialize can hold.
PuzzleFiles == PuzzleUploads \cup {Malformed, NotRecords}

TeamFiles == TeamUploads \cup {Malformed, NotRecords}

\* ------------------------------------------------- provisioned directories
\* Directories of tagged documents, as load builds them into entity objects.
FullPuzzles == [p \in {"p1", "p2"} |-> Puzzle(p, 20)]

FullTeams ==
    [t \in {"alpha", "beta"} |->
        IF t = "alpha" THEN Team(t, <<"u1">>, <<"c1">>, EmptyDict)
                       ELSE Team(t, <<"u2">>, <<"c2">>, OtherServerRole)]

\* The first team has a role of this server, which a member of the second
\* team holds.
RoleTeams ==
    [t \in {"alpha", "beta"} |->
        IF t = "alpha" THEN Team(t, <<"u1">>, <<"c1">>, [g \in {"g1"} |-> "r1"])
                       ELSE Team(t, <<"u2">>, <<"c2">>, EmptyDict)]

NotStarted(puzzles, teams) ==
    [pk \in DOMAIN puzzles |-> [tk \in DOMAIN teams |-> Attempt(pk, tk)]]

\* A marathon under way: alpha has unlocked p1 at clock reading 1, beta has
\* unlocked p1 at reading 1 and submitted it at reading 2.
UnderWay ==
    [NotStarted(FullPuzzles, FullTeams) EXCEPT
        !["p1"]["alpha"] =
            [puzzle |-> "p1", team |-> "alpha", state |-> "in progress",
             timer |-> [start |-> Seconds(1), end |-> NoTime, duration |-> NoDuration],
             link |-> None],
        !["p1"]["beta"] =
            [puzzle |-> "p1", team |-> "beta", state |-> "submitted",
             timer |-> [start |-> Seconds(1), end |-> Seconds(2), duration |-> <<0, 30, 30>>],
             link |-> "L1"]]

Provisioned ==
    { [attempts |-> NotStarted(FullPuzzles, FullTeams),
       puzzles |-> FullPuzzles, teams |-> FullTeams, clock |-> 0],
      [attempts |-> UnderWay,
       puzzles |-> FullPuzzles, teams |-> FullTeams, clock |-> 2],
      [attempts |-> NotStarted(FullPuzzles, RoleTeams),
       puzzles |-> FullPuzzles, teams |-> RoleTeams, clock |-> 0],
      [attempts |-> [p \in {"p1"} |-> [t \in {"alpha"} |-> Attempt(p, t)]],
       puzzles |-> [p \in {"p1"} |-> Puzzle(p, 10)],
       teams |-> [t \in {"alpha"} |-> Team(t, <<"u1">>, <<"c1">>, EmptyDict)],
       clock |-> 0] }

\* ------------------------------------------------------------------- state
VARIABLES
    exists,        \* which of the three files are present in data/marathon/
    attemptsFile,  \* what load returns from attempts.yaml
    puzzlesFile,   \* what load returns from puzzles.yaml
    teamsFile,     \* what load returns from teams.yaml
    reading,       \* initialize handlers suspended in an attachment read
    pending,       \* handlers suspended in their reply, before their store
    clock,         \* the last reading of datetime.now()
    issued,        \* number of command invocations so far
    outcome,       \* the last reply sent or exception raised, or the await
                   \* an invocation went into without either
    unlocks        \* history: attempts an unlock has confirmed since start-up
                   \* or the last initialize store

vars == <<exists, attemptsFile, puzzlesFile, teamsFile, reading, pending, clock,
          issued, outcome, unlocks>>

files == <<exists, attemptsFile, puzzlesFile, teamsFile>>

\* Marathon.__init__ keeps nothing but the bot; the state is the directory
\* data/marathon/, which at start-up is missing (a fresh deployment) or is
\* one the operator has provisioned.
Init ==
    /\ \/ /\ exists = {}
          /\ attemptsFile = EmptyDict
          /\ puzzlesFile = EmptyDict
          /\ teamsFile = EmptyDict
          /\ clock = 0
       \/ \E d \in Provisioned :
             /\ exists = FileNames
             /\ attemptsFile = d.attempts
             /\ puzzlesFile = d.puzzles
             /\ teamsFile = d.teams
             /\ clock = d.clock
    /\ reading = {}
    /\ pending = {}
    /\ issued = 0
    /\ outcome = [cmd |-> None, kind |-> None]
    /\ unlocks = {}

\* ---------------------------------------------------------------------- IO
\* open(..., 'r') of each of the three files; a missing one raises.
Loadable == exists = FileNames

\* yaml_dump with NoAliasDumper: an Attempt anywhere in the attempts raises;
\* None, {} and a dict of empty dicts are written.
RepresentableAttempts(attempts) ==
    attempts = null \/ \A pk \in DOMAIN attempts : DOMAIN attempts[pk] = {}

\* The same for puzzles and teams, whose values are Puzzle and Team objects.
RepresentableRoster(roster) ==
    roster = null \/ DOMAIN roster = {}

\* _store writes attempts.yaml, then puzzles.yaml `if puzzles:`, then
\* teams.yaml `if teams:`; the first dump that raises ends the call.
StoreRaises(attempts, puzzles, teams) ==
    \/ ~RepresentableAttempts(attempts)
    \/ Truthy(puzzles) /\ ~RepresentableRoster(puzzles)
    \/ Truthy(teams) /\ ~RepresentableRoster(teams)

\* Each file reached is opened for writing, which creates or empties it, and
\* holds the collection when the dump succeeds and nothing when it raises.
store(attempts, puzzles, teams) ==
    LET okA == RepresentableAttempts(attempts)
        doP == okA /\ Truthy(puzzles)
        okP == RepresentableRoster(puzzles)
        doT == okA /\ (Truthy(puzzles) => okP) /\ Truthy(teams)
        okT == RepresentableRoster(teams)
    IN  /\ attemptsFile' = IF okA THEN attempts ELSE null
        /\ puzzlesFile' = IF doP THEN (IF okP THEN puzzles ELSE null) ELSE puzzlesFile
        /\ teamsFile' = IF doT THEN (IF okT THEN teams ELSE null) ELSE teamsFile
        /\ exists' = exists \cup {"attempts"}
                            \cup (IF doP THEN {"puzzles"} ELSE {})
                            \cup (IF doT THEN {"teams"} ELSE {})

\* ----------------------------------------------------------------- helpers
Matches(member, team) ==
    \/ UserRoles(member) \cap Range(team.role) # {}
    \/ includes(team, member)

\* `for team in teams.values()` from the i-th team on: the first team whose
\* role or member check succeeds is returned, None when the loop runs out.
RECURSIVE find_team_from(_, _, _)
find_team_from(i, member, teams) ==
    IF i > Len(TeamOrder) THEN None
    ELSE IF TeamOrder[i] \notin DOMAIN teams THEN find_team_from(i + 1, member, teams)
    ELSE IF Matches(member, teams[TeamOrder[i]]) THEN TeamOrder[i]
    ELSE find_team_from(i + 1, member, teams)

\* Variant: the loop does not return at the first match, the last one stands.
find_team_last(member, teams) ==
    LET hits == {i \in 1..Len(TeamOrder) :
                    /\ TeamOrder[i] \in DOMAIN teams
                    /\ Matches(member, teams[TeamOrder[i]])}
    IN  IF hits = {} THEN None
        ELSE TeamOrder[CHOOSE i \in hits : \A j \in hits : j <= i]

\* Called on a dict; on None `teams.values()` raises, which the handlers
\* below take as their fault before calling.
find_team(member, teams) == find_team_from(1, member, teams)

ensure_owner(user) == user \in Owners

ensure_team(user, teams) == find_team(user, teams)

ensure_channel(channel, team) == Contains(team.channels, channel)

ensure_state(state, expected) == state = expected

\* `d[k]` succeeds: d is a dict (None raises TypeError) with key k.
HasKey(d, k) == d # null /\ k \in DOMAIN d

HasAttempt(attempts, puzzle, team) ==
    /\ HasKey(attempts, puzzle)
    /\ team \in DOMAIN attempts[puzzle]

\* An invocation that ends in its reply (or in an exception) without a store.
Ends(cmd, kind) ==
    /\ outcome' = [cmd |-> cmd, kind |-> kind]
    /\ UNCHANGED <<files, reading, pending, clock, unlocks>>

\* An unlock or submit that raises once the attempt's unlock() / submit() has
\* read datetime.now(): in the timer's subtraction (line 92, from 370) or at
\* `puzzles[relevant_attempt.puzzle]`. The change made is to the loaded attempt
\* only, which is dropped with the handler.
FaultsAfterReading(cmd) ==
    /\ clock' = clock + 1
    /\ outcome' = [cmd |-> cmd, kind |-> "fault"]
    /\ UNCHANGED <<files, reading, pending, unlocks>>

Invoke ==
    /\ issued < MaxCmds
    /\ issued' = issued + 1

\* A handler suspended in `await self.send_ethereal(...)` with its locals;
\* id tells the invocation (two invocations with equal arguments are two
\* handlers), base is the attempts collection as it was loaded.
Suspended(id, cmd, user, channel, puzzle, team, attempts, puzzles, teams, base) ==
    [id |-> id, cmd |-> cmd, user |-> user, channel |-> channel,
     puzzle |-> puzzle, team |-> team, attempts |-> attempts,
     puzzles |-> puzzles, teams |-> teams, base |-> base]

\* A handler resumed after its reply ends with its store: in silence, or with
\* the exception of the dump.
EndsAfterStore(cmd, attempts, puzzles, teams) ==
    outcome' = IF StoreRaises(attempts, puzzles, teams)
               THEN [cmd |-> cmd, kind |-> "fault"]
               ELSE outcome

\* ------------------------------------------------------------- initialize
\* Lines 302-306: after the owner check the handler is suspended in
\* `await puzzles.read()`, holding nothing but its two attachments.
initialize(user, puzzle_data, team_data) ==
    /\ Invoke
    /\ IF ~ensure_owner(user) THEN Ends("initialize", "deny_owner")
       ELSE /\ Cardinality(reading) + Cardinality(pending) < MaxPending
            /\ reading' = reading \cup
                  {[id |-> issued + 1, user |-> user, at |-> "puzzles",
                    puzzles |-> puzzle_data, teams |-> team_data]}
            /\ outcome' = [cmd |-> "initialize", kind |-> "reading"]
            /\ UNCHANGED <<files, pending, clock, unlocks>>

\* A handler in an attachment read ends with the parse-error reply (line 308)
\* or with an exception.
ReadEnds(h, kind) ==
    /\ reading' = reading \ {h}
    /\ outcome' = [cmd |-> "initialize", kind |-> kind]
    /\ UNCHANGED <<files, pending, clock, issued, unlocks>>

\* Line 306, first half: the puzzles attachment is read and parsed inside the
\* try; then the handler is suspended in `await teams.read()`.
initializePuzzlesRead(h) ==
    /\ h \in reading
    /\ h.at = "puzzles"
    /\ IF h.puzzles = Malformed THEN ReadEnds(h, "parse_error")
       ELSE /\ reading' = (reading \ {h}) \cup {[h EXCEPT !.at = "teams"]}
            /\ UNCHANGED <<files, pending, clock, issued, outcome, unlocks>>

\* Lines 310-313: the entity dicts and the fresh attempts are built, and the
\* handler is suspended in its reply with them.
initializeBuild(h) ==
    LET puzzle_dict == h.puzzles
        team_dict == h.teams
        attempts == [pk \in DOMAIN puzzle_dict |->
                        [tk \in DOMAIN team_dict |-> Attempt(pk, tk)]]
    IN  /\ reading' = reading \ {h}
        /\ pending' = pending \cup
              {Suspended(h.id, "initialize", h.user, None, None, None,
                         attempts, puzzle_dict, team_dict, EmptyDict)}
        /\ outcome' = [cmd |-> "initialize", kind |-> "confirm"]
        /\ UNCHANGED <<files, clock, issued, unlocks>>

\* Variant: the second yaml_load is outside the try.
initializeTeamsRead_noguard(h) ==
    /\ h \in reading
    /\ h.at = "teams"
    /\ IF h.teams = Malformed \/ h.puzzles = NotRecords \/ h.teams = NotRecords
       THEN ReadEnds(h, "fault")
       ELSE initializeBuild(h)

\* Line 306, second half, to line 313: the teams attachment is read and parsed
\* inside the try; outside it, line 310 raises on data that is no mapping of
\* records.
initializeTeamsRead(h) ==
    /\ h \in reading
    /\ h.at = "teams"
    /\ IF h.teams = Malformed THEN ReadEnds(h, "parse_error")
       ELSE IF h.puzzles = NotRecords \/ h.teams = NotRecords THEN ReadEnds(h, "fault")
       ELSE initializeBuild(h)

initializeStore(h) ==
    /\ h \in pending
    /\ h.cmd = "initialize"
    /\ store(h.attempts, h.puzzles, h.teams)
    /\ EndsAfterStore("initialize", h.attempts, h.puzzles, h.teams)
    /\ pending' = pending \ {h}
    /\ unlocks' = {}
    /\ UNCHANGED <<reading, clock, issued>>

\* ------------------------------------------------------------------ unlock
\* Lines 324-342: load, the team and channel checks, the attempt looked up
\* under the name of the team found (attempts[puzzle][team.name], 333), the
\* state check, the clock reading of Attempt.unlock (338), the lookup of the
\* attempt's puzzle (339-340), and the reply, in which the handler is
\* suspended holding the team it found.
unlock(user, channel, puzzle) ==
    /\ Invoke
    /\ IF ~Loadable THEN Ends("unlock", "fault")
       ELSE IF teamsFile = null THEN Ends("unlock", "fault")
       ELSE LET attempts == attemptsFile
                puzzles == puzzlesFile
                teams == teamsFile
                team == ensure_team(user, teams)
            IN  IF team = None THEN Ends("unlock", "deny_team")
                ELSE IF ~ensure_channel(channel, teams[team])
                     THEN Ends("unlock", "deny_channel")
                ELSE IF ~HasAttempt(attempts, puzzle, teams[team].name)
                     THEN Ends("unlock", "fault")
                ELSE IF ~ensure_state(attempts[puzzle][teams[team].name].state, "not started")
                     THEN Ends("unlock", "deny_state")
                ELSE LET relevant_attempt == attempts[puzzle][teams[team].name]
                         now == clock + 1
                     IN  IF ~HasKey(puzzles, relevant_attempt.puzzle)
                         THEN FaultsAfterReading("unlock")
                         ELSE /\ Cardinality(reading) + Cardinality(pending) < MaxPending
                              /\ clock' = now
                              /\ pending' = pending \cup
                                   {Suspended(issued + 1, "unlock", user, channel, puzzle, team,
                                      [attempts EXCEPT ![puzzle][teams[team].name] =
                                          AttemptUnlock(relevant_attempt, Seconds(now))],
                                      puzzles, teams, attempts)}
                              /\ outcome' = [cmd |-> "unlock", kind |-> "confirm"]
                              /\ unlocks' = unlocks \cup {<<puzzle, teams[team].name>>}
                              /\ UNCHANGED <<files, reading>>

unlockStore(h) ==
    /\ h \in pending
    /\ h.cmd = "unlock"
    /\ store(h.attempts, null, null)
    /\ EndsAfterStore("unlock", h.attempts, null, null)
    /\ pending' = pending \ {h}
    /\ UNCHANGED <<reading, clock, issued, unlocks>>

\* ------------------------------------------------------------------ submit
\* Lines 356-374: as unlock, with the clock reading and the subtraction of
\* Attempt.submit (370) before the lookup of the attempt's puzzle (372).
submit(user, channel, puzzle, link) ==
    /\ Invoke
    /\ IF ~Loadable THEN Ends("submit", "fault")
       ELSE IF teamsFile = null THEN Ends("submit", "fault")
       ELSE LET attempts == attemptsFile
                puzzles == puzzlesFile
                teams == teamsFile
                team == ensure_team(user, teams)
            IN  IF team = None THEN Ends("submit", "deny_team")
                ELSE IF ~ensure_channel(channel, teams[team])
                     THEN Ends("submit", "deny_channel")
                ELSE IF ~HasAttempt(attempts, puzzle, teams[team].name)
                     THEN Ends("submit", "fault")
                ELSE IF ~ensure_state(attempts[puzzle][teams[team].name].state, "in progress")
                     THEN Ends("submit", "deny_state")
                ELSE LET relevant_attempt == attempts[puzzle][teams[team].name]
                         now == clock + 1
                     IN  IF \/ TimerSubmitRaises(relevant_attempt.timer)
                            \/ ~HasKey(puzzles, relevant_attempt.puzzle)
                         THEN FaultsAfterReading("submit")
                         ELSE /\ Cardinality(reading) + Cardinality(pending) < MaxPending
                              /\ clock' = now
                              /\ pending' = pending \cup
                                   {Suspended(issued + 1, "submit", user, channel, puzzle, team,
                                      [attempts EXCEPT ![puzzle][teams[team].name] =
                                          AttemptSubmit(relevant_attempt, link, Seconds(now))],
                                      puzzles, teams, attempts)}
                              /\ outcome' = [cmd |-> "submit", kind |-> "confirm"]
                              /\ UNCHANGED <<files, reading, unlocks>>

submitStore(h) ==
    /\ h \in pending
    /\ h.cmd = "submit"
    /\ store(h.attempts, null, null)
    /\ EndsAfterStore("submit", h.attempts, null, null)
    /\ pending' = pending \ {h}
    /\ UNCHANGED <<reading, clock, issued, unlocks>>

\* ----------------------------------------------------- team administration
\* These handlers load, mutate and store before their only await (the reply),
\* so each is one step; the reply is reached when the store has not raised.
Administer(cmd, teams) ==
    /\ store(attemptsFile, null, teams)
    /\ outcome' = [cmd |-> cmd,
                   kind |-> IF StoreRaises(attemptsFile, null, teams)
                            THEN "fault" ELSE "confirm"]
    /\ UNCHANGED <<reading, pending, clock, unlocks>>

\* `if channel_id not in teams[team].channels: ....append(channel_id)`
AddChannel(teams, team, channel) ==
    IF ~Contains(teams[team].channels, channel)
    THEN [teams EXCEPT ![team].channels = Append(@, channel)]
    ELSE teams

\* `if channel_id in teams[team].channels: ....remove(channel_id)`
RemoveChannel(teams, team, channel) ==
    IF Contains(teams[team].channels, channel)
    THEN [teams EXCEPT ![team].channels = RemoveFirst(@, channel)]
    ELSE teams

add_channel(user, channel, team) ==
    /\ Invoke
    /\ IF ~ensure_owner(user) THEN Ends("add_channel", "deny_owner")
       ELSE IF ~Loadable THEN Ends("add_channel", "fault")
       ELSE LET teams == teamsFile
            IN  IF ~HasKey(teams, team) THEN Ends("add_channel", "fault")
                ELSE Administer("add_channel", AddChannel(teams, team, channel))

remove_channel(user, channel, team) ==
    /\ Invoke
    /\ IF ~ensure_owner(user) THEN Ends("remove_channel", "deny_owner")
       ELSE IF ~Loadable THEN Ends("remove_channel", "fault")
       ELSE LET teams == teamsFile
            IN  IF ~HasKey(teams, team) THEN Ends("remove_channel", "fault")
                ELSE Administer("remove_channel", RemoveChannel(teams, team, channel))

\* Variant: a team that is no key is listed as having no players.
list_players_get(user, team) ==
    /\ Invoke
    /\ IF ~Loadable THEN Ends("list_players", "fault")
       ELSE IF teamsFile = null THEN Ends("list_players", "fault")
       ELSE Ends("list_players", "listing")

list_players(user, team) ==
    /\ Invoke
    /\ IF ~Loadable THEN Ends("list_players", "fault")
       ELSE IF ~HasKey(teamsFile, team) THEN Ends("list_players", "fault")
       ELSE Ends("list_players", "listing")

add_player(user, player, team) ==
    /\ Invoke
    /\ IF ~ensure_owner(user) THEN Ends("add_player", "deny_owner")
       ELSE IF ~Loadable THEN Ends("add_player", "fault")
       ELSE IF teamsFile = null THEN Ends("add_player", "fault")
       ELSE LET teams == teamsFile
                curr == find_team(player, teams)
            IN  IF curr # None THEN Ends("add_player", "deny_player")
                ELSE IF ~HasKey(teams, team) THEN Ends("add_player", "fault")
                ELSE Administer("add_player",
                       [teams EXCEPT ![team].members = Append(@, player)])

remove_player(user, player, team) ==
    /\ Invoke
    /\ IF ~ensure_owner(user) THEN Ends("remove_player", "deny_owner")
       ELSE IF ~Loadable THEN Ends("remove_player", "fault")
       ELSE IF teamsFile = null THEN Ends("remove_player", "fault")
       ELSE LET teams == teamsFile
                curr == find_team(player, teams)
            IN  IF curr = None THEN Ends("remove_player", "deny_player")
                ELSE IF ~HasKey(teams, team) THEN Ends("remove_player", "fault")
                ELSE Administer("remove_player",
                       IF includes(teams[team], player)
                       THEN [teams EXCEPT ![team].members = RemoveFirst(@, player)]
                       ELSE teams)

set_role(user, guild, team, role) ==
    /\ Invoke
    /\ IF ~ensure_owner(user) THEN Ends("set_role", "deny_owner")
       ELSE IF ~Loadable THEN Ends("set_role", "fault")
       ELSE LET teams == teamsFile
            IN  IF ~HasKey(teams, team) THEN Ends("set_role", "fault")
                ELSE Administer("set_role",
                       [teams EXCEPT ![team].role =
                           [g \in DOMAIN @ \cup {guild} |->
                               IF g = guild THEN role ELSE @[g]]])

\* -------------------------------------------------------------------- next
Next ==
    \/ \E u \in Users, ps \in PuzzleFiles, ts \in TeamFiles : initialize(u, ps, ts)
    \/ \E h \in reading : initializePuzzlesRead(h)
    \/ \E h \in reading : initializeTeamsRead(h)
    \/ \E h \in pending : initializeStore(h)
    \/ \E u \in Users, c \in Channels, p \in PuzzleIds : unlock(u, c, p)
    \/ \E h \in pending : unlockStore(h)
    \/ \E u \in Users, c \in Channels, p \in PuzzleIds, l \in Links : submit(u, c, p, l)
    \/ \E h \in pending : submitStore(h)
    \/ \E u \in Users, c \in Channels, t \in TeamNames : add_channel(u, c, t)
    \/ \E u \in Users, c \in Channels, t \in TeamNames : remove_channel(u, c, t)
    \/ \E u \in Users, t \in TeamNames : list_players(u, t)
    \/ \E u \in Users, pl \in Users, t \in TeamNames : add_player(u, pl, t)
    \/ \E u \in Users, pl \in Users, t \in TeamNames : remove_player(u, pl, t)
    \/ \E u \in Users, g \in Guilds, t \in TeamNames, r \in Roles : set_role(u, g, t, r)

Spec == Init /\ [][Next]_vars

\* ================================================================ properties
Keys(d) == IF d = null THEN {} ELSE DOMAIN d

Pairs(attempts) ==
    {pt \in Keys(attempts) \X TeamNames : pt[2] \in DOMAIN attempts[pt[1]]}

At(attempts, pt) == attempts[pt[1]][pt[2]]

Kept == Pairs(attemptsFile) \cap Pairs(attemptsFile')

LegalMove(s1, s2) ==
    \/ s2 = s1
    \/ s1 = "not started" /\ s2 = "in progress"
    \/ s1 = "in progress" /\ s2 = "submitted"

\* The three files are present and teams.yaml holds a roster.
Readable == Loadable /\ teamsFile # null

\* The step is an invocation of command cmd (up to its reply or its fault).
Invoked(cmd) == issued' # issued /\ outcome'.cmd = cmd

\* The step resumes a suspended handler.
Resumed == issued' = issued /\ pending' # pending

InitializeStores == Resumed /\ \E h \in pending : initializeStore(h)

PlayerStore(h) == unlockStore(h) \/ submitStore(h)

\* The attempt an unlock or submit handler holds: that of its puzzle under
\* the name of its team.
Own(h) == <<h.puzzle, h.teams[h.team].name>>

Confirmed(cmd) == Invoked(cmd) /\ outcome'.kind = "confirm"

AdminCmds == {"add_channel", "remove_channel", "add_player", "remove_player", "set_role"}

\* ------------------------------------------------------------------------ C1
\* C1: between two initializations every persisted attempt stays persisted
\* and its state moves only not started -> in progress -> submitted, whatever
\* the step and the interleaving.
C1_MonotonicAnyInterleaving ==
    [][ ~InitializeStores =>
          \A pt \in Pairs(attemptsFile) :
             /\ pt \in Pairs(attemptsFile')
             /\ LegalMove(At(attemptsFile, pt).state, At(attemptsFile', pt).state) ]_vars

\* ------------------------------------------------------------------------ C2
\* The attempt of (puzzle p, the team of u) as persisted when the command is
\* invoked is in one of the given states.
AttemptCase(u, p, states) ==
    /\ Readable
    /\ find_team(u, teamsFile) # None
    /\ HasAttempt(attemptsFile, p, find_team(u, teamsFile))
    /\ attemptsFile[p][find_team(u, teamsFile)].state \in states

ChecksPass(u, c) ==
    /\ Readable
    /\ find_team(u, teamsFile) # None
    /\ Contains(teamsFile[find_team(u, teamsFile)].channels, c)

Denied == outcome'.kind \in {"deny_channel", "deny_state"} /\ UNCHANGED <<files, pending>>

Proceeds(cmd, u, c, p) ==
    \E h \in pending' \ pending :
        h.cmd = cmd /\ h.user = u /\ h.channel = c /\ h.puzzle = p
                    /\ h.team = find_team(u, teamsFile)

UnlockStored(h) ==
    /\ Own(h) \in Pairs(attemptsFile')
    /\ At(attemptsFile', Own(h)).state = "in progress"
    /\ At(attemptsFile', Own(h)).timer.start # NoTime

UnlockDenials ==
    Invoked("unlock") =>
       \/ Denied
       \/ \A u \in Users, p \in PuzzleIds :
             AttemptCase(u, p, {"in progress", "submitted"})
                => \A c \in Channels : ~unlock(u, c, p)

\* C2: unlock from in progress / submitted is denied and changes nothing;
\* unlock from not started with the team and channel checks passed goes on to
\* persist in progress with timer.start set.
C2_UnlockFromNotStartedOnly ==
    [][ /\ UnlockDenials
        /\ Invoked("unlock") =>
             \A u \in Users, c \in Channels, p \in PuzzleIds :
                (AttemptCase(u, p, {"not started"}) /\ ChecksPass(u, c) /\ unlock(u, c, p))
                   => Proceeds("unlock", u, c, p)
        /\ Resumed => \A h \in pending : unlockStore(h) => UnlockStored(h) ]_vars

\* ------------------------------------------------------------------------ C3
SubmitStored(h) ==
    /\ Own(h) \in Pairs(attemptsFile')
    /\ At(attemptsFile', Own(h)).state = "submitted"
    /\ At(attemptsFile', Own(h)).timer.end # NoTime
    /\ At(attemptsFile', Own(h)).timer.duration # NoDuration
    /\ At(attemptsFile', Own(h)).link \in Links

SubmitDenials ==
    Invoked("submit") =>
       \/ Denied
       \/ \A u \in Users, p \in PuzzleIds :
             AttemptCase(u, p, {"not started", "submitted"})
                => \A c \in Channels, l \in Links : ~submit(u, c, p, l)

\* C3: submit from not started / submitted is denied and changes nothing;
\* submit from in progress with the team and channel checks passed goes on to
\* persist submitted with end, duration and link recorded.
C3_SubmitFromInProgressOnly ==
    [][ /\ SubmitDenials
        /\ Invoked("submit") =>
             \A u \in Users, c \in Channels, p \in PuzzleIds :
                (AttemptCase(u, p, {"in progress"}) /\ ChecksPass(u, c))
                   => \A l \in Links : submit(u, c, p, l) => Proceeds("submit", u, c, p)
        /\ Resumed => \A h \in pending : submitStore(h) => SubmitStored(h) ]_vars

\* ------------------------------------------------------------------------ C4
\* The three files hold collections and the keys of the attempts are exactly
\* (puzzle ids) x (team names).
Dense ==
    /\ Loadable
    /\ attemptsFile # null /\ puzzlesFile # null /\ teamsFile # null
    /\ Pairs(attemptsFile) = (DOMAIN puzzlesFile) \X (DOMAIN teamsFile)

\* C4: the store of an initialize leaves the attempts matrix dense over the
\* persisted roster, and no later step of any handler makes a dense matrix
\* sparse.
C4_DenseMatrix ==
    [][ (InitializeStores \/ Dense) => Dense' ]_vars

\* ------------------------------------------------------------------------ C5
\* C5: when an initialize with uploads Ps, Ts has stored, the persisted puzzles
\* are Ps, the persisted teams are Ts and the persisted attempts are one fresh
\* not-started Attempt per pair of Ps x Ts.
C5_InitializePostcondition ==
    [][ Resumed =>
          \A h \in pending :
             initializeStore(h) =>
                /\ exists' = FileNames
                /\ puzzlesFile' = h.puzzles
                /\ teamsFile' = h.teams
                /\ attemptsFile' = [pk \in DOMAIN h.puzzles |->
                                      [tk \in DOMAIN h.teams |-> Attempt(pk, tk)]] ]_vars

\* ------------------------------------------------------------------------ C6
Authorized(h) ==
    /\ h.team # None
    /\ h.team = find_team(h.user, h.teams)
    /\ Contains(h.teams[h.team].channels, h.channel)

\* C6: the store of an unlock or submit changes a persisted Attempt(P, T) only
\* for a caller whom find_team resolves to T, from a channel of T, on the teams
\* that handler loaded; the attempts of every other team are persisted as they
\* were.
C6_TransitionsAuthorized ==
    [][ Resumed =>
          \A h \in pending :
             PlayerStore(h) =>
                \A pt \in Pairs(attemptsFile) :
                   (pt \notin Pairs(attemptsFile') \/ At(attemptsFile', pt) # At(attemptsFile, pt))
                      => /\ Authorized(h)
                         /\ pt[2] = find_team(h.user, h.teams) ]_vars

\* ------------------------------------------------------------------------ C7
NothingDone == UNCHANGED <<files, reading, pending>>

NotOwner == Users \ Owners

OwnerDenied == outcome'.kind = "deny_owner" /\ NothingDone

PlayerChecks(cmd) ==
    Invoked(cmd) =>
       \A u \in Users :
          /\ find_team(u, teamsFile) = None
                => \A c \in Channels, p \in PuzzleIds :
                      (IF cmd = "unlock" THEN unlock(u, c, p)
                                         ELSE \E l \in Links : submit(u, c, p, l))
                         => outcome'.kind = "deny_team" /\ NothingDone
          /\ find_team(u, teamsFile) # None
                => \A c \in Channels :
                      ~Contains(teamsFile[find_team(u, teamsFile)].channels, c)
                         => \A p \in PuzzleIds :
                               (IF cmd = "unlock" THEN unlock(u, c, p)
                                                  ELSE \E l \in Links : submit(u, c, p, l))
                                  => outcome'.kind = "deny_channel" /\ NothingDone

\* C7: (a) initialize and the five team-administration commands invoked by a
\* caller outside the owner set reply with the organizer denial and change
\* nothing; (b) unlock and submit by a caller whom no persisted team matches
\* reply "need to be on a team" whatever the channel and the attempt, and by a
\* team member from a channel that is not the team's reply with the channel
\* denial whatever the attempt; neither changes anything.
C7_DenialsDoNotMutate ==
    [][ /\ Invoked("initialize") =>
             \/ OwnerDenied
             \/ \A u \in NotOwner, ps \in PuzzleFiles, ts \in TeamFiles : ~initialize(u, ps, ts)
        /\ Invoked("add_channel") =>
             \/ OwnerDenied
             \/ \A u \in NotOwner, c \in Channels, t \in TeamNames : ~add_channel(u, c, t)
        /\ Invoked("remove_channel") =>
             \/ OwnerDenied
             \/ \A u \in NotOwner, c \in Channels, t \in TeamNames : ~remove_channel(u, c, t)
        /\ Invoked("add_player") =>
             \/ OwnerDenied
             \/ \A u \in NotOwner, pl \in Users, t \in TeamNames : ~add_player(u, pl, t)
        /\ Invoked("remove_player") =>
             \/ OwnerDenied
             \/ \A u \in NotOwner, pl \in Users, t \in TeamNames : ~remove_player(u, pl, t)
        /\ Invoked("set_role") =>
             \/ OwnerDenied
             \/ \A u \in NotOwner, g \in Guilds, t \in TeamNames, r \in Roles : ~set_role(u, g, t, r)
        /\ PlayerChecks("unlock")
        /\ PlayerChecks("submit") ]_vars

\* ------------------------------------------------------------------------ C8
\* C8: a step that sends the confirmation of a command leaves the persisted
\* collections holding that command's effect.
C8_PersistBeforeReply ==
    [][ /\ Confirmed("unlock") =>
             \A u \in Users, c \in Channels, p \in PuzzleIds :
                unlock(u, c, p) =>
                   /\ HasAttempt(attemptsFile', p, find_team(u, teamsFile))
                   /\ attemptsFile'[p][find_team(u, teamsFile)].state = "in progress"
        /\ Confirmed("submit") =>
             \A u \in Users, c \in Channels, p \in PuzzleIds, l \in Links :
                submit(u, c, p, l) =>
                   /\ HasAttempt(attemptsFile', p, find_team(u, teamsFile))
                   /\ attemptsFile'[p][find_team(u, teamsFile)].state = "submitted"
                   /\ attemptsFile'[p][find_team(u, teamsFile)].link = l
        /\ \A h \in reading :
             (initializeTeamsRead(h) /\ outcome'.kind = "confirm") =>
                /\ Truthy(h.puzzles) => puzzlesFile' = h.puzzles
                /\ Truthy(h.teams) => teamsFile' = h.teams
                /\ Pairs(attemptsFile') = (DOMAIN h.puzzles) \X (DOMAIN h.teams) ]_vars

\* ------------------------------------------------------------------------ C9
\* C9: when the persisted attempts have been written by another handler since
\* an unlock or submit handler loaded them, that handler's store raises
\* nothing and replaces the whole persisted attempts collection by its own
\* snapshot, every entry the other handler had updated being back at its
\* loaded value.
C9_LastWriterWins ==
    [][ Resumed =>
          \A h \in pending :
             (PlayerStore(h) /\ h.base # attemptsFile) =>
                /\ outcome' = outcome
                /\ attemptsFile' = h.attempts
                /\ \A pt \in Pairs(h.base) :
                      pt # Own(h) => /\ pt \in Pairs(attemptsFile')
                                     /\ At(attemptsFile', pt) = At(h.base, pt) ]_vars

\* ----------------------------------------------------------------------- C10
DurationOf(a) == StrTimedelta(a.timer.end - a.timer.start)

SubmittedTimersRight ==
    \A pt \in Pairs(attemptsFile) :
       At(attemptsFile, pt).state = "submitted" =>
          /\ At(attemptsFile, pt).timer.start # NoTime
          /\ At(attemptsFile, pt).timer.end >= At(attemptsFile, pt).timer.start
          /\ At(attemptsFile, pt).timer.duration = DurationOf(At(attemptsFile, pt))

SubmittedTimersKept ==
    \A pt \in Pairs(attemptsFile) :
       At(attemptsFile, pt).state = "submitted" =>
          /\ pt \in Pairs(attemptsFile')
          /\ At(attemptsFile', pt).timer = At(attemptsFile, pt).timer

\* C10: every submitted attempt has duration = end - start with end >= start,
\* and between two initializations every step leaves a persisted submitted
\* attempt persisted with the timer it has.
C10_TimerFrozen ==
    /\ []SubmittedTimersRight
    /\ [][ ~InitializeStores => SubmittedTimersKept ]_vars

\* ----------------------------------------------------------------------- C11
\* The player matches some persisted team by one of the roles they hold or by
\* their id being in the member list.
OnSomeTeam(pl) ==
    \E t \in DOMAIN teamsFile :
       \/ \E g \in DOMAIN teamsFile[t].role : teamsFile[t].role[g] \in UserRoles(pl)
       \/ \E i \in 1..Len(teamsFile[t].members) : teamsFile[t].members[i] = pl

MembersKept ==
    /\ teamsFile' # null
    /\ DOMAIN teamsFile' = DOMAIN teamsFile
    /\ \A t \in DOMAIN teamsFile : teamsFile'[t].members = teamsFile[t].members

\* The invocation got past the organizer check and the load, and the load
\* gave a roster.
OrganizerRuns(cmd) == Invoked(cmd) /\ Readable /\ outcome'.kind # "deny_owner"

\* C11: an organizer's add_player is denied, no member list changing, exactly
\* when the player matches some team by membership or by role; an organizer's
\* remove_player is denied, no member list changing, exactly when the player
\* matches no team; an add_player that is not denied, naming a team of the
\* roster, appends the player to that team's members and to no other.
C11_PlayerDenials ==
    [][ /\ OrganizerRuns("add_player") =>
             \A pl \in Users, t \in TeamNames :
                (\E u \in Owners : add_player(u, pl, t)) =>
                   /\ (outcome'.kind = "deny_player") <=> OnSomeTeam(pl)
                   /\ outcome'.kind = "deny_player" => MembersKept
                   /\ (~OnSomeTeam(pl) /\ t \in DOMAIN teamsFile) =>
                         /\ teamsFile' # null
                         /\ DOMAIN teamsFile' = DOMAIN teamsFile
                         /\ teamsFile'[t].members = Append(teamsFile[t].members, pl)
                         /\ \A o \in DOMAIN teamsFile \ {t} : teamsFile'[o] = teamsFile[o]
        /\ OrganizerRuns("remove_player") =>
             \A pl \in Users, t \in TeamNames :
                (\E u \in Owners : remove_player(u, pl, t)) =>
                   /\ (outcome'.kind = "deny_player") <=> ~OnSomeTeam(pl)
                   /\ outcome'.kind = "deny_player" => MembersKept ]_vars

\* ----------------------------------------------------------------------- C12
\* C12: when an organizer's remove_player(player, team) finds the player on a
\* team C, the command confirms and the player's id is in no team's member
\* list afterwards, whichever team of the roster the command named.
C12_RemovedFromCurrentTeam ==
    [][ OrganizerRuns("remove_player") =>
          \A pl \in Users, t \in DOMAIN teamsFile :
             ((\E u \in Owners : remove_player(u, pl, t))
                  /\ find_team(pl, teamsFile) # None)
                => /\ outcome'.kind = "confirm"
                   /\ teamsFile' # null
                   /\ \A o \in DOMAIN teamsFile' : ~includes(teamsFile'[o], pl) ]_vars

\* ----------------------------------------------------------------------- C13
\* The persisted teams the caller matches: one of the caller's roles is a
\* value of the team's role mapping, or the caller's id is in its members.
Matching(m) ==
    {t \in DOMAIN teamsFile :
        \/ \E g \in DOMAIN teamsFile[t].role : teamsFile[t].role[g] \in UserRoles(m)
        \/ \E i \in 1..Len(teamsFile[t].members) : teamsFile[t].members[i] = m}

Position(t) == CHOOSE i \in 1..Len(TeamOrder) : TeamOrder[i] = t

\* C13: on every loaded team collection and for every caller, find_team
\* returns none exactly when the caller matches no team, and otherwise the
\* matched team that comes first in collection order; a caller who matches
\* one team only gets that team, matched by role or by membership.
C13_FindTeamFirstMatch ==
    teamsFile # null =>
       \A m \in Users :
          LET found == find_team(m, teamsFile) IN
             /\ (found = None) <=> (Matching(m) = {})
             /\ found # None =>
                   /\ found \in Matching(m)
                   /\ \A t \in Matching(m) : Position(found) <= Position(t)
             /\ \A t \in DOMAIN teamsFile : Matching(m) = {t} => found = t

\* One caller matches the first team through a role alone and the second by
\* membership, and a command of theirs has gone ahead for the first team;
\* another caller matches a single team.
C13_Witness ==
    /\ Readable
    /\ TeamNames \subseteq DOMAIN teamsFile
    /\ \E m \in Users :
          /\ Matching(m) = TeamNames
          /\ ~includes(teamsFile[TeamOrder[1]], m)
          /\ includes(teamsFile[TeamOrder[2]], m)
          /\ find_team(m, teamsFile) = TeamOrder[1]
    /\ \E m \in Users : Cardinality(Matching(m)) = 1
    /\ \E h \in pending : h.user = "u2" /\ h.team = TeamOrder[1]

\* ----------------------------------------------------------------------- C14
Count(seq, x) == Cardinality({i \in 1..Len(seq) : seq[i] = x})

NoDuplicateChannels ==
    \A t \in Keys(teamsFile), c \in Channels : Count(teamsFile[t].channels, c) <= 1

ChannelOpsIdempotent ==
    \A t \in Keys(teamsFile), c \in Channels :
       LET added == AddChannel(teamsFile, t, c)
           removed == RemoveChannel(teamsFile, t, c)
       IN  /\ AddChannel(added, t, c) = added
           /\ Count(added[t].channels, c) = 1
           /\ RemoveChannel(removed, t, c) = removed
           /\ Count(removed[t].channels, c) = 0
           /\ Count(teamsFile[t].channels, c) = 1 => added = teamsFile
           /\ Count(teamsFile[t].channels, c) = 0 => removed = teamsFile
           /\ Count(RemoveChannel(added, t, c)[t].channels, c) = 0

\* C14: no channel list of a roster holds a channel twice; adding a channel
\* twice gives what adding it once gives, with the channel in the list once,
\* and likewise for removing; removing after adding leaves the channel absent;
\* and an organizer's add_channel / remove_channel on a team of the roster
\* raises nothing, stores exactly that result and leaves the three files as
\* they were when the channel was already present / absent.
C14_ChannelOpsIdempotent ==
    /\ [](NoDuplicateChannels /\ ChannelOpsIdempotent)
    /\ [][ /\ OrganizerRuns("add_channel") =>
                \A c \in Channels, t \in DOMAIN teamsFile :
                   (\E u \in Owners : add_channel(u, c, t)) =>
                      /\ outcome'.kind = "confirm"
                      /\ teamsFile' = AddChannel(teamsFile, t, c)
                      /\ Count(teamsFile[t].channels, c) = 1 => UNCHANGED files
           /\ OrganizerRuns("remove_channel") =>
                \A c \in Channels, t \in DOMAIN teamsFile :
                   (\E u \in Owners : remove_channel(u, c, t)) =>
                      /\ outcome'.kind = "confirm"
                      /\ teamsFile' = RemoveChannel(teamsFile, t, c)
                      /\ Count(teamsFile[t].channels, c) = 0 => UNCHANGED files ]_vars

\* ----------------------------------------------------------------------- C15
\* The invocation raised: no store ran, nothing is left suspended, and the
\* next invocation finds the files as this one found them.
FaultOnly ==
    outcome'.kind = "fault" /\ UNCHANGED <<files, reading, pending, unlocks>>

\* The invocation got past the organizer check.
OrganizerCalls(cmd) == Invoked(cmd) /\ outcome'.kind # "deny_owner"

\* Team names that are no key of the persisted teams.
MissingTeams == TeamNames \ Keys(teamsFile)

\* Puzzle ids that are no key of the persisted attempts, where unlock and
\* submit look up the id they are given (attempts[puzzle], lines 333 and 365).
MissingPuzzles == PuzzleIds \ Keys(attemptsFile)

MissingKeyFaults(addGuard(_), removeGuard(_)) ==
    /\ OrganizerCalls("add_channel") =>
          \A c \in Channels, t \in MissingTeams :
             (\E u \in Owners : add_channel(u, c, t)) => FaultOnly
    /\ OrganizerCalls("remove_channel") =>
          \A c \in Channels, t \in MissingTeams :
             (\E u \in Owners : remove_channel(u, c, t)) => FaultOnly
    /\ OrganizerCalls("set_role") =>
          \A g \in Guilds, t \in MissingTeams, r \in Roles :
             (\E u \in Owners : set_role(u, g, t, r)) => FaultOnly
    /\ OrganizerCalls("add_player") =>
          \A pl \in Users, t \in MissingTeams :
             (addGuard(pl) /\ \E u \in Owners : add_player(u, pl, t)) => FaultOnly
    /\ OrganizerCalls("remove_player") =>
          \A pl \in Users, t \in MissingTeams :
             (removeGuard(pl) /\ \E u \in Owners : remove_player(u, pl, t)) => FaultOnly
    /\ Invoked("list_players") =>
          \A u \in Users, t \in MissingTeams : list_players(u, t) => FaultOnly
    /\ Invoked("unlock") =>
          \A u \in Users, c \in Channels, p \in MissingPuzzles :
             (ChecksPass(u, c) /\ unlock(u, c, p)) => FaultOnly
    /\ Invoked("submit") =>
          \A u \in Users, c \in Channels, p \in MissingPuzzles :
             (ChecksPass(u, c) /\ \E l \in Links : submit(u, c, p, l)) => FaultOnly

AnyPlayer(pl) == TRUE

\* find_team does not find the player on a team (line 247 does not deny).
NotFoundOnTeam(pl) == ~(Readable /\ OnSomeTeam(pl))

\* find_team does not find the player on no team (line 268 does not deny).
NotFoundOnNoTeam(pl) == ~(Readable /\ ~OnSomeTeam(pl))

\* C15 as stated, for the callers the commands admit (an organizer for the
\* five administration commands, a team member in one of the team's channels
\* for unlock and submit): a command naming a team that is no key of the
\* teams, or a puzzle id that is no key of the attempts, ends in a fault, with
\* no store, the three files as they were and nothing left suspended.
C15_MissingKeyAlwaysFaults ==
    [][ MissingKeyFaults(AnyPlayer, AnyPlayer) ]_vars

\* C15 amended: as stated, except for an add_player whose player find_team
\* finds on a team and a remove_player whose player find_team finds on no
\* team (their denial comes before the lookup of the named team).
C15_MissingKeyFaultsAfterChecks ==
    [][ MissingKeyFaults(NotFoundOnTeam, NotFoundOnNoTeam) ]_vars

\* An unlock has just faulted on a dense one-puzzle roster: the caller passed
\* the team and channel checks and named the puzzle id that is no key.
C15_Witness ==
    /\ outcome = [cmd |-> "unlock", kind |-> "fault"]
    /\ Dense
    /\ DOMAIN puzzlesFile = {"p1"}
    /\ DOMAIN teamsFile # {}
    /\ \E u \in Users, c \in Channels : ChecksPass(u, c)

\* ----------------------------------------------------------------------- C16
\* C16: an organizer's initialize with an attachment that does not parse
\* reports the parse error when it comes to that attachment and ends there:
\* it never gets to its store, and no step of it changes puzzles, teams or
\* attempts.
C16_MalformedUploadNoStore ==
    [][ \A h \in reading :
          (h.puzzles = Malformed \/ h.teams = Malformed) =>
             /\ initializePuzzlesRead(h) =>
                   /\ UNCHANGED <<files, pending>>
                   /\ IF h.puzzles = Malformed
                      THEN outcome'.kind = "parse_error" /\ reading' = reading \ {h}
                      ELSE outcome' = outcome
             /\ initializeTeamsRead(h) =>
                   /\ UNCHANGED <<files, pending>>
                   /\ outcome'.kind = "parse_error"
                   /\ reading' = reading \ {h} ]_vars

\* The parse error has just been reported over a roster with an attempt under
\* way, and no handler is left to store.
C16_Witness ==
    /\ outcome = [cmd |-> "initialize", kind |-> "parse_error"]
    /\ reading = {}
    /\ pending = {}
    /\ Dense
    /\ \E pt \in Pairs(attemptsFile) : At(attemptsFile, pt).state = "in progress"

\* ----------------------------------------------------------------------- C17
\* The step is a team-administration command that reached its store, which
\* writes the attempts it loaded and the teams it loaded and mutated.
Administers(cmd) ==
    /\ OrganizerRuns(cmd)
    /\ outcome'.kind \notin {"deny_player"}
    /\ \E t \in DOMAIN teamsFile, u \in Owners, x \in Channels \cup Users \cup Guilds :
          \/ cmd = "add_channel" /\ x \in Channels /\ add_channel(u, x, t)
          \/ cmd = "remove_channel" /\ x \in Channels /\ remove_channel(u, x, t)
          \/ cmd = "add_player" /\ x \in Users /\ add_player(u, x, t)
          \/ cmd = "remove_player" /\ x \in Users /\ remove_player(u, x, t)
          \/ cmd = "set_role" /\ x \in Guilds /\ \E r \in Roles : set_role(u, x, t, r)

\* C17: a collection that is loaded and stored back without mutation is
\* persisted as it was: a team-administration command, which stores the
\* attempts it loaded, leaves the persisted attempts equal to what they were,
\* every timer start and end included, and leaves the puzzles alone; an
\* add_channel of a channel the team has and a remove_channel of one it has
\* not, which store the teams as loaded, leave the persisted teams equal too.
C17_RoundTrip ==
    [][ /\ (\E cmd \in AdminCmds : Administers(cmd)) =>
             /\ attemptsFile' = attemptsFile
             /\ puzzlesFile' = puzzlesFile
        /\ Administers("add_channel") =>
             \A c \in Channels, t \in DOMAIN teamsFile :
                ((\E u \in Owners : add_channel(u, c, t))
                    /\ Contains(teamsFile[t].channels, c)) => teamsFile' = teamsFile
        /\ Administers("remove_channel") =>
             \A c \in Channels, t \in DOMAIN teamsFile :
                ((\E u \in Owners : remove_channel(u, c, t))
                    /\ ~Contains(teamsFile[t].channels, c)) => teamsFile' = teamsFile ]_vars

\* ----------------------------------------------------------------------- C18
OnlyTeamChanged(t) ==
    /\ teamsFile' # null
    /\ DOMAIN teamsFile' = DOMAIN teamsFile
    /\ \A o \in DOMAIN teamsFile \ {t} : teamsFile'[o] = teamsFile[o]

DenialKinds == {"deny_owner", "deny_team", "deny_channel", "deny_state", "deny_player"}

\* C18: a step of unlock or submit, at invocation or at its store, leaves
\* the persisted puzzles and teams as they are; a step of add_channel,
\* remove_channel, add_player, remove_player or set_role leaves the persisted
\* puzzles and attempts as they are and changes no team but the named one;
\* list_players and every denied command leave the three files as they are.
C18_CommandFrames ==
    [][ /\ (Invoked("unlock") \/ Invoked("submit")) =>
             puzzlesFile' = puzzlesFile /\ teamsFile' = teamsFile
        /\ Resumed =>
             \A h \in pending :
                PlayerStore(h) => puzzlesFile' = puzzlesFile /\ teamsFile' = teamsFile
        /\ (\E cmd \in AdminCmds : Invoked(cmd)) =>
             puzzlesFile' = puzzlesFile /\ attemptsFile' = attemptsFile
        /\ \A cmd \in AdminCmds :
             Administers(cmd) => \E t \in DOMAIN teamsFile : OnlyTeamChanged(t)
        /\ Invoked("list_players") => UNCHANGED files
        /\ (issued' # issued /\ outcome'.kind \in DenialKinds) => UNCHANGED files ]_vars

\* ----------------------------------------------------------------------- C20
FieldsConsistent(a) ==
    \/ /\ a.state = "not started"
       /\ a.timer.start = NoTime /\ a.timer.end = NoTime
       /\ a.timer.duration = NoDuration /\ a.link = None
    \/ /\ a.state = "in progress"
       /\ a.timer.start # NoTime /\ a.timer.end = NoTime
       /\ a.timer.duration = NoDuration /\ a.link = None
    \/ /\ a.state = "submitted"
       /\ a.timer.start # NoTime /\ a.timer.end # NoTime
       /\ a.timer.duration # NoDuration /\ a.link # None

\* C20: in every reachable state every attempt, in the persisted collection
\* and in the collection each suspended handler is about to store, is not
\* started with start, end, duration and link unset, or in progress with start
\* set and end, duration and link unset, or submitted with all four set.
C20_FieldsConsistent ==
    /\ \A pt \in Pairs(attemptsFile) : FieldsConsistent(At(attemptsFile, pt))
    /\ \A h \in pending :
          \A pt \in Pairs(h.attempts) : FieldsConsistent(At(h.attempts, pt))

\* All three kinds of attempt are persisted side by side while an unlock and
\* a submit handler, interleaved, each hold the attempt they have moved on.
C20_Witness ==
    /\ \E pt \in Pairs(attemptsFile) : At(attemptsFile, pt).state = "not started"
    /\ \E pt \in Pairs(attemptsFile) :
          /\ At(attemptsFile, pt).state = "in progress"
          /\ At(attemptsFile, pt).timer.start # NoTime
    /\ \E pt \in Pairs(attemptsFile) :
          /\ At(attemptsFile, pt).state = "submitted"
          /\ At(attemptsFile, pt).link \in Links
    /\ \E h \in pending :
          /\ h.cmd = "unlock"
          /\ At(h.attempts, Own(h)).state = "in progress"
          /\ At(h.attempts, Own(h)).timer.start = Seconds(clock)
    /\ \E h \in pending :
          /\ h.cmd = "submit"
          /\ At(h.attempts, Own(h)).state = "submitted"
          /\ At(h.attempts, Own(h)).link \in Links

\* ----------------------------------------------------------------------- C21
\* The unlock handlers suspended in their reply that have not stored yet.
UnlocksInFlight == {h \in pending : h.cmd = "unlock"}

\* C21: between two initialize stores at most one unlock passes the state
\* check and sends its confirmation for the same puzzle and team, whatever the
\* interleaving of the callers' handlers; and a start time that is persisted
\* for an attempt is never replaced with another start time by the store of an
\* unlock.
C21_OneUnlockPerAttempt ==
    [][ /\ Confirmed("unlock") =>
             \A h \in UnlocksInFlight' \ UnlocksInFlight : Own(h) \notin unlocks
        /\ Resumed =>
             \A h \in UnlocksInFlight :
                unlockStore(h) =>
                   \A pt \in Kept :
                      (/\ At(attemptsFile, pt).timer.start # NoTime
                       /\ At(attemptsFile', pt).timer.start # NoTime)
                      => At(attemptsFile', pt).timer.start
                            = At(attemptsFile, pt).timer.start ]_vars

\* ----------------------------------------------------------------------- C22
InitializeInFlight == \E h \in pending : h.cmd = "initialize"

\* The step is an administration command and leaves the persisted teams as
\* that command applied to the teams persisted before it.
AdministrationApplied ==
    \/ \E u \in Users, c \in Channels, t \in TeamNames :
          /\ add_channel(u, c, t)
          /\ teamsFile' = AddChannel(teamsFile, t, c)
    \/ \E u \in Users, c \in Channels, t \in TeamNames :
          /\ remove_channel(u, c, t)
          /\ teamsFile' = RemoveChannel(teamsFile, t, c)
    \/ \E u \in Users, pl \in Users, t \in TeamNames :
          /\ add_player(u, pl, t)
          /\ teamsFile' = [teamsFile EXCEPT ![t].members = Append(@, pl)]
    \/ \E u \in Users, pl \in Users, t \in TeamNames :
          /\ remove_player(u, pl, t)
          /\ teamsFile' = [teamsFile EXCEPT ![t].members =
                               IF Contains(@, pl) THEN RemoveFirst(@, pl) ELSE @]
    \/ \E u \in Users, g \in Guilds, t \in TeamNames, r \in Roles :
          /\ set_role(u, g, t, r)
          /\ teamsFile' # null
          /\ teamsFile'[t].role[g] = r

\* C22: while no initialize handler is suspended, a step changes the persisted
\* teams only by applying one confirmed administration command to the teams
\* persisted just before it; every other step, the store of an unlock or of a
\* submit included, leaves the persisted teams as they are. The persisted
\* teams are therefore the confirmed administration commands applied in the
\* order of their stores.
C22_TeamUpdatesNeverLost ==
    [][ ~InitializeInFlight =>
          IF \E cmd \in AdminCmds : Confirmed(cmd)
          THEN AdministrationApplied
          ELSE teamsFile' = teamsFile ]_vars

====
